---- MODULE Spec2Model ----
(***************************************************************************)
(* Skip-hire booking wizard: the MultiStepBuilder step machine, the        *)
(* step-local selection hooks, the Tabs reordering and the card rendering  *)
(* of HybridSkipPanel, over the static skip catalog.                       *)
(***************************************************************************)
EXTENDS Integers, Sequences, FiniteSets, TLC

\* Number of past events the observer log keeps (a bound of the model).
HistLen == 2

\* Longest raw record list the catalog is built from (a bound of the model).
MaxRecords == 3

\* Largest skip size the display properties are derived for (a bound of the
\* model).
MaxSize == 41

\* ------------------------------------------------------------------------
\* Values
\* ------------------------------------------------------------------------

\* JavaScript null of a `string | null` hook.
null == "<null>"

\* A hook of a component that is not mounted holds no value.
Unmounted == "<unmounted>"

\* `number | null` fields: <<>> is null, <<n>> is the number n.
NoCost == <<>>

Cost(n) == <<n>>

\* ------------------------------------------------------------------------
\* Catalog (hybrid-skip-panel.tsx)
\* ------------------------------------------------------------------------

\* The raw fixture, fields the catalog logic reads.
rawApiData ==
  << [id |-> 17933, size |-> 4,  transport_cost |-> NoCost, price_before_vat |-> 278,
      vat |-> 20, forbidden |-> FALSE, allowed_on_road |-> TRUE,  allows_heavy_waste |-> TRUE],
     [id |-> 17934, size |-> 6,  transport_cost |-> NoCost, price_before_vat |-> 305,
      vat |-> 20, forbidden |-> FALSE, allowed_on_road |-> TRUE,  allows_heavy_waste |-> TRUE],
     [id |-> 17935, size |-> 8,  transport_cost |-> NoCost, price_before_vat |-> 375,
      vat |-> 20, forbidden |-> FALSE, allowed_on_road |-> TRUE,  allows_heavy_waste |-> TRUE],
     [id |-> 17936, size |-> 10, transport_cost |-> NoCost, price_before_vat |-> 400,
      vat |-> 20, forbidden |-> FALSE, allowed_on_road |-> FALSE, allows_heavy_waste |-> FALSE],
     [id |-> 17937, size |-> 12, transport_cost |-> NoCost, price_before_vat |-> 439,
      vat |-> 20, forbidden |-> FALSE, allowed_on_road |-> FALSE, allows_heavy_waste |-> FALSE],
     [id |-> 17938, size |-> 14, transport_cost |-> NoCost, price_before_vat |-> 470,
      vat |-> 20, forbidden |-> FALSE, allowed_on_road |-> FALSE, allows_heavy_waste |-> FALSE],
     [id |-> 17939, size |-> 16, transport_cost |-> NoCost, price_before_vat |-> 496,
      vat |-> 20, forbidden |-> FALSE, allowed_on_road |-> FALSE, allows_heavy_waste |-> FALSE],
     [id |-> 15124, size |-> 20, transport_cost |-> Cost(248), price_before_vat |-> 992,
      vat |-> 20, forbidden |-> FALSE, allowed_on_road |-> FALSE, allows_heavy_waste |-> TRUE],
     [id |-> 15125, size |-> 40, transport_cost |-> Cost(248), price_before_vat |-> 992,
      vat |-> 20, forbidden |-> FALSE, allowed_on_road |-> FALSE, allows_heavy_waste |-> FALSE] >>

\* sizeConfig: the tabulated display properties the catalog logic and the
\* cards read (popularity in hundredths, icon by component name).
sizeConfig ==
  [s \in {4, 6, 8, 10, 12} |->
     CASE s = 4  ->
            [name |-> "Compact", popularity |-> 15, icon |-> "Home",
             gradient |-> "from-emerald-400 via-green-500 to-teal-600",
             description |-> "Perfect for small home projects and garden clearances",
             bestFor |-> <<"Garden waste", "Small renovations", "Decluttering",
                           "DIY projects">>,
             useCases |-> << [type |-> "Garden clearance", percentage |-> 85],
                             [type |-> "Small renovation", percentage |-> 70],
                             [type |-> "Decluttering", percentage |-> 90] >>]
       [] s = 6  ->
            [name |-> "Standard", popularity |-> 35, icon |-> "Home",
             gradient |-> "from-blue-400 via-sky-500 to-indigo-600",
             description |-> "Most popular choice for home renovations",
             bestFor |-> <<"Kitchen renovations", "Bathroom refits",
                           "Medium clear-outs", "House moves">>,
             useCases |-> << [type |-> "Kitchen renovation", percentage |-> 95],
                             [type |-> "Bathroom refit", percentage |-> 90],
                             [type |-> "House move", percentage |-> 75] >>]
       [] s = 8  ->
            [name |-> "Large", popularity |-> 25, icon |-> "Building",
             gradient |-> "from-rose-400 via-pink-500 to-fuchsia-600",
             description |-> "Ideal for larger home projects and extensions",
             bestFor |-> <<"Full room renovations", "Extensions",
                           "Large garden projects", "Commercial fit-outs">>,
             useCases |-> << [type |-> "Full renovation", percentage |-> 90],
                             [type |-> "Extension work", percentage |-> 85],
                             [type |-> "Commercial project", percentage |-> 70] >>]
       [] s = 10 ->
            [name |-> "Extra Large", popularity |-> 20, icon |-> "Building",
             gradient |-> "from-violet-400 via-purple-500 to-indigo-700",
             description |-> "Perfect for major home projects and large clearouts",
             bestFor |-> <<"Major renovations", "Large extensions",
                           "Commercial projects", "Construction waste">>,
             useCases |-> << [type |-> "Major renovation", percentage |-> 95],
                             [type |-> "Large extension", percentage |-> 85],
                             [type |-> "Construction", percentage |-> 80] >>]
       [] s = 12 ->
            [name |-> "Commercial", popularity |-> 15, icon |-> "Factory",
             gradient |-> "from-amber-400 via-orange-500 to-red-600",
             description |-> "Heavy-duty solution for major construction",
             bestFor |-> <<"Major construction", "Industrial projects",
                           "Large demolitions", "Commercial builds">>,
             useCases |-> << [type |-> "Construction", percentage |-> 95],
                             [type |-> "Demolition", percentage |-> 90],
                             [type |-> "Industrial", percentage |-> 80] >>]]

\* defaultConfig.icon
defaultIcon(size) ==
  IF size >= 16 THEN "Factory" ELSE IF size >= 10 THEN "Building" ELSE "Home"

\* defaultConfig.gradient with its first band, size >= 40, left out.
defaultGradientFromTwenty(size) ==
  IF size >= 20 THEN "from-red-500 via-red-700 to-red-900"
  ELSE IF size >= 16 THEN "from-cyan-400 via-teal-500 to-emerald-600"
  ELSE IF size >= 14 THEN "from-indigo-400 via-blue-600 to-blue-900"
  ELSE IF size >= 12 THEN "from-yellow-400 via-amber-500 to-orange-600"
  ELSE "from-slate-400 via-gray-500 to-zinc-600"

\* defaultConfig.gradient
defaultGradient(size) ==
  IF size >= 40 THEN "from-slate-600 via-gray-700 to-zinc-800"
  ELSE IF size >= 20 THEN "from-red-500 via-red-700 to-red-900"
  ELSE IF size >= 16 THEN "from-cyan-400 via-teal-500 to-emerald-600"
  ELSE IF size >= 14 THEN "from-indigo-400 via-blue-600 to-blue-900"
  ELSE IF size >= 12 THEN "from-yellow-400 via-amber-500 to-orange-600"
  ELSE "from-slate-400 via-gray-500 to-zinc-600"

\* defaultConfig.description
defaultDescription(size) ==
  IF size >= 20 THEN "Industrial-grade solution for major projects"
  ELSE IF size >= 16 THEN "Large commercial and construction projects"
  ELSE IF size >= 12 THEN "Heavy-duty commercial applications"
  ELSE ToString(size) \o " yard skip for medium to large projects"

\* defaultConfig.bestFor with `size >= 15` written for `size >= 16`.
defaultBestForFromFifteen(size) ==
  IF size >= 20
  THEN <<"Industrial projects", "Major construction", "Large demolitions",
         "Commercial builds">>
  ELSE IF size >= 15
  THEN <<"Large construction", "Commercial projects", "Major demolitions",
         "Industrial work">>
  ELSE IF size >= 12
  THEN <<"Construction projects", "Commercial renovation", "Large clearouts",
         "Industrial use">>
  ELSE <<"Medium construction", "Large renovation", "Commercial projects",
         "Bulk waste">>

\* defaultConfig.bestFor
defaultBestFor(size) ==
  IF size >= 20
  THEN <<"Industrial projects", "Major construction", "Large demolitions",
         "Commercial builds">>
  ELSE IF size >= 16
  THEN <<"Large construction", "Commercial projects", "Major demolitions",
         "Industrial work">>
  ELSE IF size >= 12
  THEN <<"Construction projects", "Commercial renovation", "Large clearouts",
         "Industrial use">>
  ELSE <<"Medium construction", "Large renovation", "Commercial projects",
         "Bulk waste">>

\* defaultConfig.useCases
defaultUseCases(size) ==
  << [type |-> IF size >= 20 THEN "Industrial"
               ELSE IF size >= 16 THEN "Large construction"
               ELSE IF size >= 12 THEN "Construction"
               ELSE "Large project",
      percentage |-> 90],
     [type |-> IF size >= 20 THEN "Major construction"
               ELSE IF size >= 16 THEN "Commercial"
               ELSE IF size >= 12 THEN "Commercial renovation"
               ELSE "Commercial",
      percentage |-> 80],
     [type |-> "Bulk clearance", percentage |-> 70] >>

\* defaultConfig: the synthesized name `${size} Yard Skip`, popularity 0.1,
\* and the properties chosen by size threshold.
defaultConfig(size) ==
  [name |-> ToString(size) \o " Yard Skip", popularity |-> 10,
   icon |-> defaultIcon(size), gradient |-> defaultGradient(size),
   description |-> defaultDescription(size),
   bestFor |-> defaultBestFor(size), useCases |-> defaultUseCases(size)]

\* sizeConfig[size] || defaultConfig
getDisplayProperties(apiData) ==
  IF apiData.size \in DOMAIN sizeConfig
  THEN sizeConfig[apiData.size]
  ELSE defaultConfig(apiData.size)

\* Truthiness of a `number | null`: null and 0 are falsy.
Truthy(cost) == cost # NoCost /\ cost[1] # 0

\* The whole-number <<price, vat>> pairs, price up to 1000 and vat up to 100,
\* whose product price * (1 + vat / 100) in IEEE-754 double arithmetic falls
\* just below its exact value, a half: 50 * (1 + 15 / 100) is
\* 57.49999999999999. For every other pair of that range the double product
\* lies on the same side of the half as the exact one.
ProductBelowHalf ==
  { <<25, 82>>, <<50, 13>>, <<50, 15>>, <<50, 57>>, <<75, 38>>, <<90, 15>>,
    <<110, 15>>, <<125, 82>>, <<125, 86>>, <<150, 13>>, <<150, 57>>, <<150,
    59>>, <<150, 61>>, <<150, 63>>, <<170, 15>>, <<175, 38>>, <<190, 15>>,
    <<210, 15>>, <<225, 82>>, <<250, 57>>, <<250, 59>>, <<250, 61>>, <<275,
    38>>, <<275, 82>>, <<275, 86>>, <<325, 38>>, <<330, 15>>, <<350, 13>>,
    <<350, 15>>, <<370, 15>>, <<375, 82>>, <<390, 15>>, <<410, 15>>, <<425,
    82>>, <<430, 15>>, <<450, 13>>, <<450, 57>>, <<450, 59>>, <<475, 82>>,
    <<475, 86>>, <<525, 82>>, <<525, 86>>, <<550, 13>>, <<550, 57>>, <<550,
    59>>, <<550, 61>>, <<550, 63>>, <<575, 38>>, <<625, 38>>, <<650, 13>>,
    <<650, 15>>, <<650, 57>>, <<670, 15>>, <<675, 38>>, <<690, 15>>, <<710,
    15>>, <<725, 38>>, <<725, 82>>, <<730, 15>>, <<750, 13>>, <<750, 15>>,
    <<750, 57>>, <<770, 15>>, <<775, 82>>, <<790, 15>>, <<810, 15>>, <<825,
    82>>, <<830, 15>>, <<850, 13>>, <<850, 15>>, <<850, 17>>, <<850, 57>>,
    <<850, 59>>, <<870, 15>>, <<875, 82>>, <<890, 15>>, <<925, 82>>, <<925,
    86>>, <<950, 57>>, <<950, 59>>, <<950, 61>>, <<975, 82>>, <<975, 86>> }

\* Math.round(price * (1 + vat / 100)) on whole-number price and vat:
\* Math.round takes the double product to the nearest whole number, a half
\* going up.
RoundedPriceWithVat(price, vat) ==
  IF <<price, vat>> \in ProductBelowHalf
  THEN (price * (100 + vat)) \div 100
  ELSE (2 * price * (100 + vat) + 100) \div 200

\* finalPrice keeping the transport cost alone when there is one.
FinalPriceTransportOnly(priceWithVat, cost) ==
  IF Truthy(cost) THEN cost[1] ELSE priceWithVat

\* finalPrice: transport_cost ? priceWithVat + transport_cost : priceWithVat
FinalPrice(priceWithVat, cost) ==
  IF Truthy(cost) THEN priceWithVat + cost[1] ELSE priceWithVat

transformApiDataToSkip(apiData) ==
  LET displayProps == getDisplayProperties(apiData)
      priceWithVat == RoundedPriceWithVat(apiData.price_before_vat, apiData.vat)
      finalPrice   == FinalPrice(priceWithVat, apiData.transport_cost)
      r1 == IF ~apiData.allowed_on_road THEN <<"Road permit required">> ELSE <<>>
      r2 == IF ~apiData.allows_heavy_waste
            THEN Append(r1, "Heavy waste restrictions apply") ELSE r1
      r3 == IF Truthy(apiData.transport_cost)
            THEN Append(r2, "Additional transport costs apply") ELSE r2
  IN  [id |-> apiData.id, size |-> apiData.size,
       transport_cost |-> apiData.transport_cost,
       price_before_vat |-> apiData.price_before_vat, vat |-> apiData.vat,
       forbidden |-> apiData.forbidden,
       allowed_on_road |-> apiData.allowed_on_road,
       allows_heavy_waste |-> apiData.allows_heavy_waste,
       final_price |-> finalPrice, price_with_vat |-> priceWithVat,
       name |-> displayProps.name, popularity |-> displayProps.popularity,
       icon |-> displayProps.icon, gradient |-> displayProps.gradient,
       description |-> displayProps.description,
       bestFor |-> displayProps.bestFor, useCases |-> displayProps.useCases,
       restrictions |-> r3,
       deliveryTime |-> IF Truthy(apiData.transport_cost)
                        THEN "Next day" ELSE "Same day"]

\* InsertBySize under the comparator (a, b) => b.size - a.size.
RECURSIVE InsertBySizeDescending(_, _)
InsertBySizeDescending(s, x) ==
  IF s = <<>> THEN <<x>>
  ELSE IF x.size - Head(s).size <= 0
       THEN <<Head(s)>> \o InsertBySizeDescending(Tail(s), x)
       ELSE <<x>> \o s

\* Insert x into the size-sorted sequence s after every entry of size <= x.size.
RECURSIVE InsertBySize(_, _)
InsertBySize(s, x) ==
  IF s = <<>> THEN <<x>>
  ELSE IF Head(s).size - x.size <= 0
       THEN <<Head(s)>> \o InsertBySize(Tail(s), x)
       ELSE <<x>> \o s

\* Array.prototype.sort((a, b) => a.size - b.size): a stable sort.
RECURSIVE SortBySize(_)
SortBySize(s) ==
  IF s = <<>> THEN <<>>
  ELSE InsertBySize(SortBySize(SubSeq(s, 1, Len(s) - 1)), s[Len(s)])

\* The filter callback with its negation lost.
NotForbiddenInverted(skip) == skip.forbidden

\* The filter callback (skip) => !skip.forbidden.
NotForbidden(skip) == ~skip.forbidden

\* rawApiData.filter(...): the kept records, in their order.
FilterNotForbidden(records) == SelectSeq(records, NotForbidden)

\* .map(transformApiDataToSkip)
MapTransform(records) ==
  [i \in 1..Len(records) |-> transformApiDataToSkip(records[i])]

\* The chain .filter(...).map(...).sort(...) on a record list.
BuildCatalog(records) ==
  SortBySize(MapTransform(FilterNotForbidden(records)))

skipData == BuildCatalog(rawApiData)

\* ------------------------------------------------------------------------
\* Wizard and tabs (tabs.tsx)
\* ------------------------------------------------------------------------

VARIABLES
  currentStep,        \* MultiStepBuilder: useState(1)
  canGoNext,          \* MultiStepBuilder: useState(true)
  selectedWasteType,  \* WasteTypeStep: useState(null)
  selectedPermit,     \* PermitCheckStep: useState(null)
  active,             \* Tabs: useState(propTabs[0])
  tabs,               \* Tabs: useState(propTabs)
  hovering,           \* Tabs: useState(false)
  history,            \* observer: the last HistLen events, each with the state it met
  raw,                \* the rawApiData array
  catalog,            \* the skipData array
  stage,              \* "module" while the module is evaluated, then "loaded"
  result              \* observer: the last catalog query and what it returned

vars == <<currentStep, canGoNext, selectedWasteType, selectedPermit,
          active, tabs, hovering, history, raw, catalog, stage, result>>

\* The module-level arrays, which no component writes.
catalogVars == <<raw, catalog, stage, result>>

\* The wizard's own state.
wizardVars == <<currentStep, canGoNext, selectedWasteType, selectedPermit,
                active, tabs, hovering, history>>

\* Components render once the module they import is evaluated.
Running == stage = "loaded"

\* The step configuration: the component bound to each step id.
steps ==
  << [id |-> 1, title |-> "Postcode",     component |-> "PostcodeStep"],
     [id |-> 2, title |-> "Waste Type",   component |-> "WasteTypeStep"],
     [id |-> 3, title |-> "Select Skip",  component |-> "SelectSkipStep"],
     [id |-> 4, title |-> "Permit Check", component |-> "PermitCheckStep"],
     [id |-> 5, title |-> "Choose Date",  component |-> "ChooseDateStep"],
     [id |-> 6, title |-> "Payment",      component |-> "PaymentStep"] >>

\* The tiles WasteTypeStep renders.
wasteTypes ==
  <<"Household Waste", "Garden Waste", "Construction Debris", "Mixed Waste">>

\* The tiles PermitCheckStep renders.
permitOptions ==
  <<"On my private property/driveway", "On the road/public highway">>

\* The tabs prop with value: skip.size.toString().
propTabsValueFromSize ==
  [i \in 1..Len(skipData) |->
     [title |-> skipData[i].name, value |-> ToString(skipData[i].size)]]

\* SelectSkipStep: the tabs prop, one tab per catalog entry in catalog order.
propTabs ==
  [i \in 1..Len(skipData) |->
     [title |-> skipData[i].name, value |-> ToString(skipData[i].id)]]

\* The active tab of a Tabs component that is not mounted.
NoTab == [title |-> Unmounted, value |-> Unmounted]

\* renderStepContent with its case labels counted from 0.
renderStepContentShifted(step) ==
  CASE step = 0 -> "PostcodeStep"
    [] step = 1 -> "WasteTypeStep"
    [] step = 2 -> "SelectSkipStep"
    [] step = 3 -> "PermitCheckStep"
    [] step = 4 -> "ChooseDateStep"
    [] step = 5 -> "PaymentStep"
    [] OTHER    -> "PostcodeStep"

\* The case labels of the switch of renderStepContent.
stepCases == {1, 2, 3, 4, 5, 6}

\* The switch of renderStepContent, with its default branch.
renderStepContent(step) ==
  CASE step = 1 -> "PostcodeStep"
    [] step = 2 -> "WasteTypeStep"
    [] step = 3 -> "SelectSkipStep"
    [] step = 4 -> "PermitCheckStep"
    [] step = 5 -> "ChooseDateStep"
    [] step = 6 -> "PaymentStep"
    [] OTHER    -> "PostcodeStep"

\* MountState with the Tabs component opening on the second tab, the one of
\* the most popular entry, its card in front.
MountStatePopularFirst(step) ==
  LET c == renderStepContent(step)
  IN  [selectedWasteType |-> IF c = "WasteTypeStep" THEN null ELSE Unmounted,
       selectedPermit    |-> IF c = "PermitCheckStep" THEN null ELSE Unmounted,
       active            |-> IF c = "SelectSkipStep" THEN propTabs[2] ELSE NoTab,
       tabs              |-> IF c = "SelectSkipStep"
                             THEN <<propTabs[2], propTabs[1]>>
                                  \o SubSeq(propTabs, 3, Len(propTabs))
                             ELSE <<>>,
       hovering          |-> FALSE]

\* The hooks of the step component mounted for `step`, at their useState
\* initial values; the hooks of every other step component do not exist.
MountState(step) ==
  LET c == renderStepContent(step)
  IN  [selectedWasteType |-> IF c = "WasteTypeStep" THEN null ELSE Unmounted,
       selectedPermit    |-> IF c = "PermitCheckStep" THEN null ELSE Unmounted,
       active            |-> IF c = "SelectSkipStep" THEN propTabs[1] ELSE NoTab,
       tabs              |-> IF c = "SelectSkipStep" THEN propTabs ELSE <<>>,
       hovering          |-> FALSE]

\* handleNext with its boundary check dropped.
handleNextUnchecked(step) == step + 1

\* handleNext with `<=` written for `<`.
handleNextInclusive(step) ==
  IF step <= Len(steps) THEN step + 1 ELSE step

\* handleNext stopping one step early.
handleNextEarlyStop(step) ==
  IF step < Len(steps) - 1 THEN step + 1 ELSE step

\* handlePrevious with handleNext's increment pasted in.
handlePreviousIncrements(step) ==
  IF step > 1 THEN step + 1 ELSE step

\* handleNext memoised at the first render, its closure holding step 1.
handleNextStale(step) ==
  IF 1 < Len(steps) THEN 1 + 1 ELSE 1

\* handleNext: the step setCurrentStep receives (the same step when the
\* boundary check fails and nothing is set).
handleNext(step) ==
  IF step < Len(steps) THEN step + 1 ELSE step

\* handlePrevious: likewise.
handlePrevious(step) ==
  IF step > 1 THEN step - 1 ELSE step

\* Navigation: the Next button is rendered only before the last step.
NextRendered(step) == step < Len(steps)

\* Navigation: disabled={!canGoNext}
NextDisabled(gate) == ~gate

\* Navigation: disabled={currentStep === 1}
PreviousDisabled(step) == step = 1

\* splice replaced by slice(idx, idx + 1), which leaves the array whole.
Splice1KeepsElement(arr, idx) ==
  IF idx >= 0 /\ idx < Len(arr)
  THEN [removed |-> <<arr[idx + 1]>>, rest |-> arr]
  ELSE [removed |-> <<>>, rest |-> arr]

\* Array.prototype.splice(idx, 1) on a zero-based idx: the removed elements
\* and the array that is left.
Splice1(arr, idx) ==
  IF idx >= 0 /\ idx < Len(arr)
  THEN [removed |-> <<arr[idx + 1]>>,
        rest    |-> SubSeq(arr, 1, idx) \o SubSeq(arr, idx + 2, Len(arr))]
  ELSE [removed |-> <<>>, rest |-> arr]

\* Array.prototype.unshift
Unshift(arr, x) == <<x>> \o arr

\* moveSelectedTabToTop with push written for unshift.
moveSelectedTabToTopPush(idx) ==
  LET sp      == Splice1(propTabs, idx)
      newTabs == Append(sp.rest, sp.removed[1])
  IN  [tabs |-> newTabs, active |-> newTabs[1]]

\* moveSelectedTabToTop copying the reordered state instead of the prop.
moveSelectedTabToTopFromState(idx) ==
  LET sp      == Splice1(tabs, idx)
      newTabs == Unshift(sp.rest, sp.removed[1])
  IN  [tabs |-> newTabs, active |-> newTabs[1]]

\* moveSelectedTabToTop with setActive(propTabs[0]).
moveSelectedTabToTopStaleActive(idx) ==
  LET sp      == Splice1(propTabs, idx)
      newTabs == Unshift(sp.rest, sp.removed[1])
  IN  [tabs |-> newTabs, active |-> propTabs[1]]

\* moveSelectedTabToTop: the values given to setTabs and setActive.
moveSelectedTabToTop(idx) ==
  LET sp      == Splice1(propTabs, idx)
      newTabs == Unshift(sp.rest, sp.removed[1])
  IN  [tabs |-> newTabs, active |-> newTabs[1]]

\* The whole program state, as one value.
Snapshot ==
  [currentStep |-> currentStep, canGoNext |-> canGoNext,
   selectedWasteType |-> selectedWasteType, selectedPermit |-> selectedPermit,
   active |-> active, tabs |-> tabs, hovering |-> hovering]

\* The observer's log after an event: the last HistLen events.
Logged(op, option, idx) ==
  LET h == Append(history, [op |-> op, option |-> option, idx |-> idx,
                            pre |-> Snapshot])
  IN  IF Len(h) > HistLen THEN SubSeq(h, Len(h) - HistLen + 1, Len(h)) ELSE h

\* setCurrentStep(step): a changed step re-keys the content card, which
\* unmounts the old step component and mounts the new one.
SetCurrentStep(step) ==
  IF step = currentStep
  THEN UNCHANGED <<currentStep, selectedWasteType, selectedPermit,
                   active, tabs, hovering>>
  ELSE /\ currentStep' = step
       /\ selectedWasteType' = MountState(step).selectedWasteType
       /\ selectedPermit' = MountState(step).selectedPermit
       /\ active' = MountState(step).active
       /\ tabs' = MountState(step).tabs
       /\ hovering' = MountState(step).hovering

\* isActive of the stacked layout, where every tab's card is drawn.
isActiveEveryTab(panelTabs, tab) == TRUE

\* HybridSkipPanel.isActive, for a tab of the panel's tabs prop.
isActive(panelTabs, tab) == tab.value = panelTabs[1].value

\* Array.prototype.find that found nothing.
undefined == "<undefined>"

\* Tabs: the button of `tab` is drawn as the active one (tab === active).
\* The tab objects of one mount of SelectSkipStep are those of one propTabs
\* array, whose values differ, so the same object is the same value.
ButtonActive(tab) == tab = active

\* find comparing skip.id with the tab value without toString(): a number
\* is never === a string.
findSkipStrictEquals(value) == undefined

\* skipData.find((skip) => skip.id.toString() === value)
findSkip(value) ==
  LET hits == SelectSeq(skipData, LAMBDA skip : ToString(skip.id) = value)
  IN  IF hits = <<>> THEN undefined ELSE hits[1]

\* HybridSkipPanel: the cards rendered for the tabs prop, in order; each
\* card is the catalog entry SkipContent receives.
HybridSkipPanel(panelTabs) ==
  LET shown == SelectSeq(panelTabs, LAMBDA tab : isActive(panelTabs, tab))
  IN  [i \in 1..Len(shown) |-> findSkip(shown[i].value)]

\* The VAT amount of the price breakdown,
\* Math.round((price_before_vat * vat) / 100): the product of two whole
\* numbers is exact and the quotient is the double nearest to the exact
\* one, which an exact half is, so the rounding is that of the exact value.
VatLine(skip) == (2 * skip.price_before_vat * skip.vat + 100) \div 200

\* The transport part of the price breakdown,
\* {skip.transport_cost && ...}: drawn for a truthy cost (for the cost 0
\* React draws the 0 itself, not the transport part).
TransportShown(skip) == Truthy(skip.transport_cost)

\* The price breakdown of a card: the amounts drawn, and the total.
PriceBreakdown(skip) ==
  [base |-> skip.price_before_vat, vat |-> VatLine(skip),
   transport |-> IF TransportShown(skip) THEN skip.transport_cost ELSE NoCost,
   total |-> skip.final_price]

\* No catalog query made yet.
NoResult == [op |-> "none", size |-> -1, index |-> -1]

\* MultiStepBuilder at its first render.
WizardStart ==
  /\ currentStep = 1
  /\ canGoNext = TRUE
  /\ selectedWasteType = MountState(1).selectedWasteType
  /\ selectedPermit = MountState(1).selectedPermit
  /\ active = MountState(1).active
  /\ tabs = MountState(1).tabs
  /\ hovering = MountState(1).hovering
  /\ history = <<>>

\* The shipped program: the fixture, its catalog still to be built.
Init ==
  /\ WizardStart
  /\ raw = rawApiData
  /\ catalog = <<>>
  /\ stage = "module"
  /\ result = NoResult

\* Module evaluation: skipData is built from rawApiData. filter and map
\* return new arrays and sort orders the new one, so rawApiData is not
\* written.
LoadCatalog ==
  /\ stage = "module"
  /\ stage' = "loaded"
  /\ catalog' = BuildCatalog(raw)
  /\ raw' = raw
  /\ UNCHANGED result
  /\ UNCHANGED wizardVars

\* advance() and retreat() are taken at every step, the last and the first
\* included: the calls that Navigation's rendering removes there (no Next
\* button on the last step, a disabled Previous button on the first) are
\* the ones the handlers' own boundary checks turn into no-ops.

\* advance(): onNext runs handleNext, unless the Next button is disabled.
Next_Click ==
  /\ Running
  /\ UNCHANGED catalogVars
  /\ history' = Logged("Next", "", -1)
  /\ UNCHANGED canGoNext
  /\ IF NextDisabled(canGoNext)
     THEN UNCHANGED <<currentStep, selectedWasteType, selectedPermit,
                      active, tabs, hovering>>
     ELSE SetCurrentStep(handleNext(currentStep))

\* retreat(): onPrevious runs handlePrevious.
Previous_Click ==
  /\ Running
  /\ UNCHANGED catalogVars
  /\ history' = Logged("Previous", "", -1)
  /\ UNCHANGED canGoNext
  /\ SetCurrentStep(handlePrevious(currentStep))

\* A waste tile whose click also moves the wizard on.
WasteTileClickAdvances(type) ==
  /\ Running
  /\ UNCHANGED catalogVars
  /\ renderStepContent(currentStep) = "WasteTypeStep"
  /\ history' = Logged("WasteTile", type, -1)
  /\ UNCHANGED canGoNext
  /\ SetCurrentStep(handleNext(currentStep))

\* WasteTypeStep: a click on the tile `type`.
WasteTileClick(type) ==
  /\ Running
  /\ UNCHANGED catalogVars
  /\ renderStepContent(currentStep) = "WasteTypeStep"
  /\ selectedWasteType' = type
  /\ history' = Logged("WasteTile", type, -1)
  /\ UNCHANGED <<currentStep, canGoNext, selectedPermit, active, tabs, hovering>>

\* PermitCheckStep: a click on the tile `option`.
PermitTileClick(option) ==
  /\ Running
  /\ UNCHANGED catalogVars
  /\ renderStepContent(currentStep) = "PermitCheckStep"
  /\ selectedPermit' = option
  /\ history' = Logged("PermitTile", option, -1)
  /\ UNCHANGED <<currentStep, canGoNext, selectedWasteType, active, tabs, hovering>>

\* A tab click whose splice and unshift also run on the skipData array.
TabClickReordersCatalog(idx) ==
  /\ Running
  /\ UNCHANGED <<raw, stage, result>>
  /\ catalog' = Unshift(Splice1(catalog, idx).rest, Splice1(catalog, idx).removed[1])
  /\ renderStepContent(currentStep) = "SelectSkipStep"
  /\ tabs' = moveSelectedTabToTop(idx).tabs
  /\ active' = moveSelectedTabToTop(idx).active
  /\ history' = Logged("Tab", "", idx)
  /\ UNCHANGED <<currentStep, canGoNext, selectedWasteType, selectedPermit, hovering>>

\* Tabs: a click on the button of propTabs[idx] (zero-based idx).
TabClick(idx) ==
  /\ Running
  /\ UNCHANGED catalogVars
  /\ renderStepContent(currentStep) = "SelectSkipStep"
  /\ tabs' = moveSelectedTabToTop(idx).tabs
  /\ active' = moveSelectedTabToTop(idx).active
  /\ history' = Logged("Tab", "", idx)
  /\ UNCHANGED <<currentStep, canGoNext, selectedWasteType, selectedPermit, hovering>>

\* Tabs: onMouseEnter / onMouseLeave of a tab button.
TabHover(h) ==
  /\ Running
  /\ UNCHANGED catalogVars
  /\ renderStepContent(currentStep) = "SelectSkipStep"
  /\ hovering' = h
  /\ history' = Logged(IF h THEN "MouseEnter" ELSE "MouseLeave", "", -1)
  /\ UNCHANGED <<currentStep, canGoNext, selectedWasteType, selectedPermit,
                 active, tabs>>

Next ==
  \/ LoadCatalog
  \/ Next_Click
  \/ Previous_Click
  \/ \E i \in 1..Len(wasteTypes) : WasteTileClick(wasteTypes[i])
  \/ \E i \in 1..Len(permitOptions) : PermitTileClick(permitOptions[i])
  \/ \E idx \in 0..(Len(propTabs) - 1) : TabClick(idx)
  \/ \E h \in BOOLEAN : TabHover(h)

Spec == Init /\ [][Next]_vars

\* ------------------------------------------------------------------------
\* Catalog queries, over record lists other than the fixture
\* ------------------------------------------------------------------------

\* The comparison of the scan with `>=` written for `>`.
MorePopularOrEqual(popularity, highestPopularity) ==
  popularity >= highestPopularity

\* skip.popularity > highestPopularity
MorePopular(popularity, highestPopularity) ==
  popularity > highestPopularity

\* The forEach of getMostPopularSkipIndex from entry i (one-based) on, with
\* the zero-based index and the popularity kept so far.
RECURSIVE MostPopularScan(_, _, _, _)
MostPopularScan(data, i, mostPopularIndex, highestPopularity) ==
  IF i > Len(data) THEN mostPopularIndex
  ELSE IF MorePopular(data[i].popularity, highestPopularity)
       THEN MostPopularScan(data, i + 1, i - 1, data[i].popularity)
       ELSE MostPopularScan(data, i + 1, mostPopularIndex, highestPopularity)

getMostPopularSkipIndex == MostPopularScan(catalog, 1, 0, 0)

\* skipData.findIndex((skip) => skip.size === size): zero-based, -1 for none.
findIndexBySize(data, size) ==
  LET hits == {i \in 1..Len(data) : data[i].size = size}
  IN  IF hits = {} THEN -1
      ELSE (CHOOSE i \in hits : \A j \in hits : i <= j) - 1

\* getSkipIndexBySize handing findIndex's answer on as it is.
getSkipIndexBySizeNoFallback(size) == findIndexBySize(catalog, size)

getSkipIndexBySize(size) ==
  LET index == findIndexBySize(catalog, size)
  IN  IF index # -1 THEN index ELSE getMostPopularSkipIndex

\* The record profiles the input lists are drawn from: tabulated and
\* untabulated sizes, sizes that tie, every transport cost kind (null, 0,
\* positive), forbidden records, and prices whose VAT product is a half.
Profiles ==
  << [size |-> 4,  transport_cost |-> NoCost, price_before_vat |-> 278,
      vat |-> 20, forbidden |-> FALSE, allowed_on_road |-> TRUE,  allows_heavy_waste |-> TRUE],
     [size |-> 6,  transport_cost |-> NoCost, price_before_vat |-> 50,
      vat |-> 15, forbidden |-> FALSE, allowed_on_road |-> TRUE,  allows_heavy_waste |-> FALSE],
     [size |-> 8,  transport_cost |-> Cost(0), price_before_vat |-> 5,
      vat |-> 10, forbidden |-> FALSE, allowed_on_road |-> FALSE, allows_heavy_waste |-> TRUE],
     [size |-> 20, transport_cost |-> Cost(248), price_before_vat |-> 992,
      vat |-> 20, forbidden |-> FALSE, allowed_on_road |-> FALSE, allows_heavy_waste |-> TRUE],
     [size |-> 4,  transport_cost |-> NoCost, price_before_vat |-> 305,
      vat |-> 20, forbidden |-> TRUE,  allowed_on_road |-> TRUE,  allows_heavy_waste |-> TRUE],
     [size |-> 14, transport_cost |-> Cost(248), price_before_vat |-> 470,
      vat |-> 20, forbidden |-> FALSE, allowed_on_road |-> FALSE, allows_heavy_waste |-> FALSE],
     [size |-> 6,  transport_cost |-> NoCost, price_before_vat |-> 305,
      vat |-> 20, forbidden |-> FALSE, allowed_on_road |-> TRUE,  allows_heavy_waste |-> TRUE],
     [size |-> 12, transport_cost |-> Cost(0), price_before_vat |-> 439,
      vat |-> 20, forbidden |-> TRUE,  allowed_on_road |-> FALSE, allows_heavy_waste |-> FALSE] >>

\* The record of profile p at position i of a list: ids are one per record.
RecordAt(p, i) ==
  [id |-> 100 + i, size |-> p.size, transport_cost |-> p.transport_cost,
   price_before_vat |-> p.price_before_vat, vat |-> p.vat,
   forbidden |-> p.forbidden, allowed_on_road |-> p.allowed_on_road,
   allows_heavy_waste |-> p.allows_heavy_waste]

\* Every list of at most MaxRecords records drawn from the profiles.
RawInputs ==
  UNION { { [i \in 1..n |-> RecordAt(Profiles[f[i]], i)] :
              f \in [1..n -> 1..Len(Profiles)] } : n \in 0..MaxRecords }

\* The sizes asked for: those of the profiles, and sizes no record has.
QuerySizes == {4, 6, 8, 12, 14, 20, 999}

InitCatalog ==
  /\ WizardStart
  /\ raw \in RawInputs
  /\ catalog = <<>>
  /\ stage = "module"
  /\ result = NoResult

\* A call of getMostPopularSkipIndex().
MostPopularCall ==
  /\ Running
  /\ result' = [op |-> "mostPopular", size |-> -1,
                index |-> getMostPopularSkipIndex]
  /\ UNCHANGED <<raw, catalog, stage>>
  /\ UNCHANGED wizardVars

\* A call of getSkipIndexBySize(size).
IndexBySizeCall(size) ==
  /\ Running
  /\ result' = [op |-> "bySize", size |-> size,
                index |-> getSkipIndexBySize(size)]
  /\ UNCHANGED <<raw, catalog, stage>>
  /\ UNCHANGED wizardVars

NextCatalog ==
  \/ LoadCatalog
  \/ MostPopularCall
  \/ \E size \in QuerySizes : IndexBySizeCall(size)

SpecCatalog == InitCatalog /\ [][NextCatalog]_vars

\* ------------------------------------------------------------------------
\* Display properties, over every size up to MaxSize
\* ------------------------------------------------------------------------

\* A record of the given size, its other fields those of the first fixture
\* record.
SizedRecord(size, i) ==
  RecordAt([Profiles[1] EXCEPT !.size = size], i)

\* Every list of one or two records of sizes 1..MaxSize.
SizedInputs ==
  { <<SizedRecord(a, 1)>> : a \in 1..MaxSize }
  \cup { <<SizedRecord(a, 1), SizedRecord(b, 2)>> : a, b \in 1..MaxSize }

InitDisplay ==
  /\ WizardStart
  /\ raw \in SizedInputs
  /\ catalog = <<>>
  /\ stage = "module"
  /\ result = NoResult

NextDisplay == LoadCatalog

SpecDisplay == InitDisplay /\ [][NextDisplay]_vars

\* ------------------------------------------------------------------------
\* The wizard with its events handled fairly
\* ------------------------------------------------------------------------

\* The step LoadCatalog takes, as it shows on stage.
ModuleEvaluated == stage = "module" /\ stage' = "loaded"

\* The module is evaluated, and a user who keeps clicking Next has each
\* click handled.
SpecLive ==
  /\ Init
  /\ [][Next]_vars
  /\ WF_stage(ModuleEvaluated)
  /\ WF_vars(Next_Click)

\* ------------------------------------------------------------------------
\* Properties
\* ------------------------------------------------------------------------

\* The most recent event of the log, and the one before it.
Last == history[Len(history)]

Before == history[Len(history) - 1]

Logged1 == Len(history) >= 1

Logged2 == Len(history) >= 2

\* C1: after any sequence of Next and Previous clicks the current step is an
\* integer in [1, 6], 6 being steps.length.
C1_StepInRange ==
  /\ Len(steps) = 6
  /\ currentStep \in 1..6

\* C1 witness: the last step, reached by a Next click from step 5.
C1_Witness ==
  /\ Logged1
  /\ Last.op = "Next"
  /\ Last.pre.currentStep = 5
  /\ currentStep = 6

\* C2: a Next click changes the step only when the step was below 6 and the
\* gate flag was true, and then the step becomes the old step plus one; with
\* the gate flag false the step is unchanged.
C2_AdvanceGated ==
  (Logged1 /\ Last.op = "Next") =>
    /\ (currentStep # Last.pre.currentStep =>
          /\ Last.pre.currentStep < 6
          /\ Last.pre.canGoNext)
    /\ ((Last.pre.currentStep < 6 /\ Last.pre.canGoNext) =>
          currentStep = Last.pre.currentStep + 1)
    /\ (~Last.pre.canGoNext => currentStep = Last.pre.currentStep)

\* C2 witness: a Next click that moved the wizard from step 3 to step 4.
C2_Witness ==
  /\ Logged1
  /\ Last.op = "Next"
  /\ Last.pre.currentStep = 3
  /\ Last.pre.canGoNext
  /\ currentStep = 4

\* C3: a Previous click changes the step only when the step was above 1, and
\* then the step becomes the old step minus one, whatever the gate flag is.
C3_RetreatUngated ==
  (Logged1 /\ Last.op = "Previous") =>
    /\ (currentStep # Last.pre.currentStep => Last.pre.currentStep > 1)
    /\ (Last.pre.currentStep \in 2..6 =>
          currentStep = Last.pre.currentStep - 1)

\* C3 witness: a Previous click that moved the wizard from step 6 to step 5.
C3_Witness ==
  /\ Logged1
  /\ Last.op = "Previous"
  /\ Last.pre.currentStep = 6
  /\ currentStep = 5

\* C4: advance() at step 6 and retreat() at step 1 change nothing at all:
\* the whole wizard state is the one the call met, the step still 6 or 1.
C4_BoundaryNoOp ==
  /\ (Logged1 /\ Last.op = "Next" /\ Last.pre.currentStep = 6) =>
       (Snapshot = Last.pre /\ currentStep = 6)
  /\ (Logged1 /\ Last.op = "Previous" /\ Last.pre.currentStep = 1) =>
       (Snapshot = Last.pre /\ currentStep = 1)

\* C4 witness: an advance() taken at step 6, which left the step at 6.
C4_Witness ==
  /\ Logged1
  /\ Last.op = "Next"
  /\ Last.pre.currentStep = 6
  /\ currentStep = 6

\* C5: from a step s in 1..5 with the gate open, advance() then retreat()
\* gives s again; from a step s in 2..6, retreat() then advance() gives s.
C5_RoundTrip ==
  Logged2 =>
    /\ ( /\ Before.op = "Next"
         /\ Last.op = "Previous"
         /\ Before.pre.currentStep \in 1..5
         /\ Before.pre.canGoNext ) => currentStep = Before.pre.currentStep
    /\ ( /\ Before.op = "Previous"
         /\ Last.op = "Next"
         /\ Before.pre.currentStep \in 2..6 ) => currentStep = Before.pre.currentStep

\* C5 witness: advance() then retreat() from step 5, back at step 5.
C5_Witness ==
  /\ Logged2
  /\ Before.op = "Next"
  /\ Last.op = "Previous"
  /\ Before.pre.currentStep = 5
  /\ Last.pre.currentStep = 6
  /\ currentStep = 5

\* C6: a click on a waste tile, a permit tile or a skip tab sets that step's
\* own selection and leaves the step index, the gate flag and the selection
\* state of the other steps as they were.
C6_SelectionFrame ==
  Logged1 =>
    /\ Last.op = "WasteTile" =>
         /\ selectedWasteType = Last.option
         /\ currentStep = Last.pre.currentStep
         /\ canGoNext = Last.pre.canGoNext
         /\ selectedPermit = Last.pre.selectedPermit
         /\ active = Last.pre.active
         /\ tabs = Last.pre.tabs
    /\ Last.op = "PermitTile" =>
         /\ selectedPermit = Last.option
         /\ currentStep = Last.pre.currentStep
         /\ canGoNext = Last.pre.canGoNext
         /\ selectedWasteType = Last.pre.selectedWasteType
         /\ active = Last.pre.active
         /\ tabs = Last.pre.tabs
    /\ Last.op = "Tab" =>
         /\ currentStep = Last.pre.currentStep
         /\ canGoNext = Last.pre.canGoNext
         /\ selectedWasteType = Last.pre.selectedWasteType
         /\ selectedPermit = Last.pre.selectedPermit

\* C6 witness: a waste tile chosen on step 2 over an earlier choice.
C6_Witness ==
  /\ Logged1
  /\ Last.op = "WasteTile"
  /\ Last.pre.selectedWasteType = "Household Waste"
  /\ selectedWasteType = "Garden Waste"
  /\ currentStep = 2

\* C7: a selection made on step 2, 3 or 4 is still the step's selection
\* after the step is left by retreat() and entered again by advance().
C7_SelectionSurvivesRetreat ==
  ( /\ Logged2
    /\ Before.op = "Previous"
    /\ Last.op = "Next"
    /\ Before.pre.currentStep \in 2..4
    /\ currentStep = Before.pre.currentStep ) =>
      /\ selectedWasteType = Before.pre.selectedWasteType
      /\ selectedPermit = Before.pre.selectedPermit
      /\ active = Before.pre.active

\* C8: a click on the tab at canonical position idx makes the reordered list
\* the canonical list with element idx moved to position 0, the other tabs in
\* their canonical relative order, and makes that tab the active one.
C8_ClickMovesToFront ==
  (Logged1 /\ Last.op = "Tab") =>
    /\ Len(tabs) = Len(propTabs)
    /\ tabs[1] = propTabs[Last.idx + 1]
    /\ \A j \in 1..Last.idx : tabs[j + 1] = propTabs[j]
    /\ \A j \in (Last.idx + 2)..Len(propTabs) : tabs[j] = propTabs[j]
    /\ active = propTabs[Last.idx + 1]

\* C8 witness: the click on the fifth tab, with four tabs shifted behind it
\* and four left in place.
C8_Witness ==
  /\ Logged1
  /\ Last.op = "Tab"
  /\ Last.idx = 4
  /\ tabs[1] = propTabs[5]
  /\ tabs[2] = propTabs[1]
  /\ tabs[9] = propTabs[9]

\* The list `base` with the element at zero-based idx moved to the front.
FrontOf(base, idx) ==
  [j \in 1..Len(base) |->
     IF j = 1 THEN base[idx + 1]
     ELSE IF j <= idx + 1 THEN base[j - 1] ELSE base[j]]

\* C9: the reorder starts from the canonical list, never from the reordered
\* one: a click on tab A from the original order, a click on A after a click
\* on B, and a second click on A all give the same order and active tab.
C9_ReorderFromCanonical ==
  /\ (Logged1 /\ Last.op = "Tab" /\ Last.pre.tabs = propTabs) =>
       (tabs = FrontOf(propTabs, Last.idx) /\ active = tabs[1])
  /\ (Logged2 /\ Before.op = "Tab" /\ Last.op = "Tab") =>
       /\ tabs = FrontOf(propTabs, Last.idx)
       /\ active = tabs[1]
       /\ (Before.idx = Last.idx =>
             (tabs = Last.pre.tabs /\ active = Last.pre.active))

\* C9 witness: tab B = 5 clicked, then tab A = 2 clicked on the reordered
\* list.
C9_Witness ==
  /\ Logged2
  /\ Before.op = "Tab"
  /\ Before.idx = 5
  /\ Last.op = "Tab"
  /\ Last.idx = 2
  /\ Last.pre.tabs # propTabs
  /\ tabs[1] = propTabs[3]

\* C10: on the skip-selection step HybridSkipPanel renders exactly one card,
\* the card of the first tab of the reordered list, which is the selected
\* tab.
C10_SingleCard ==
  currentStep = 3 =>
    LET cards == HybridSkipPanel(tabs)
    IN  /\ Len(cards) = 1
        /\ tabs[1] = active
        /\ ToString(cards[1].id) = tabs[1].value
        /\ cards[1].name = tabs[1].title

\* C10 witness: the card of "Extra Large" alone, after its tab was clicked.
C10_Witness ==
  /\ currentStep = 3
  /\ Logged1
  /\ Last.op = "Tab"
  /\ Last.idx = 3
  /\ Len(HybridSkipPanel(tabs)) = 1
  /\ HybridSkipPanel(tabs)[1].name = "Extra Large"

\* ------------------------------------------------------------------------
\* Properties of the catalog
\* ------------------------------------------------------------------------

\* The positions of the catalog.
Entries == 1..Len(catalog)

\* The position in the raw list of the record with identifier id.
RawPos(id) == CHOOSE i \in 1..Len(raw) : raw[i].id = id

\* C11, as amended: every entry has final_price >= price_with_vat >= 0, and
\* final_price = price_with_vat exactly when the transport cost is null or 0.
C11_PriceOrder ==
  Running =>
    \A i \in Entries :
      /\ catalog[i].final_price >= catalog[i].price_with_vat
      /\ catalog[i].price_with_vat >= 0
      /\ (catalog[i].final_price = catalog[i].price_with_vat) <=>
           (catalog[i].transport_cost = NoCost \/ catalog[i].transport_cost = Cost(0))

\* C11 as first stated: every entry has final_price >= price_with_vat >= 0,
\* and final_price = price_with_vat exactly when the transport cost is null.
C11_EqualOnlyWhenNull ==
  Running =>
    \A i \in Entries :
      /\ catalog[i].final_price >= catalog[i].price_with_vat
      /\ catalog[i].price_with_vat >= 0
      /\ (catalog[i].final_price = catalog[i].price_with_vat) <=>
           (catalog[i].transport_cost = NoCost)

\* C11 witness: a catalog with an entry of transport cost 0, whose two
\* prices agree, and an entry of transport cost 248, whose prices differ.
C11_Witness ==
  /\ Running
  /\ \E i \in Entries :
       /\ catalog[i].transport_cost = Cost(0)
       /\ catalog[i].final_price = catalog[i].price_with_vat
  /\ \E i \in Entries :
       /\ catalog[i].transport_cost = Cost(248)
       /\ catalog[i].final_price = catalog[i].price_with_vat + 248

\* C12: price_with_vat is the price inflated by the VAT percentage and
\* rounded half up; final_price adds the transport cost when there is one;
\* 278 at 20% with no transport gives 334 and 334, 992 at 20% with
\* transport 248 gives 1190 and 1438.
C12_RoundHalfUp ==
  Running =>
    \A i \in Entries :
      LET e == catalog[i]
      IN  /\ e.price_with_vat =
               (2 * e.price_before_vat * (100 + e.vat) + 100) \div 200
          /\ e.final_price =
               IF e.transport_cost # NoCost
               THEN e.price_with_vat + e.transport_cost[1]
               ELSE e.price_with_vat
          /\ ( /\ e.price_before_vat = 278
               /\ e.vat = 20
               /\ e.transport_cost = NoCost ) =>
                 (e.price_with_vat = 334 /\ e.final_price = 334)
          /\ ( /\ e.price_before_vat = 992
               /\ e.vat = 20
               /\ e.transport_cost = Cost(248) ) =>
                 (e.price_with_vat = 1190 /\ e.final_price = 1438)

\* C13: the catalog has an entry for a raw record exactly when the record
\* is not forbidden: no forbidden identifier, every other identifier once,
\* and no identifier from elsewhere.
C13_ForbiddenFiltered ==
  Running =>
    /\ \A i \in 1..Len(raw) :
         Cardinality({j \in Entries : catalog[j].id = raw[i].id}) =
           IF raw[i].forbidden THEN 0 ELSE 1
    /\ \A j \in Entries : \E i \in 1..Len(raw) : raw[i].id = catalog[j].id

\* C13 witness: three records, the middle one forbidden, two entries.
C13_Witness ==
  /\ Running
  /\ Len(raw) = 3
  /\ ~raw[1].forbidden
  /\ raw[2].forbidden
  /\ ~raw[3].forbidden
  /\ Len(catalog) = 2

\* C14: the catalog is in ascending order of size, and entries of equal
\* size are in the order their records have in the raw list.
C14_SortedStable ==
  Running =>
    \A j \in Entries :
      j < Len(catalog) =>
        /\ catalog[j].size <= catalog[j + 1].size
        /\ catalog[j].size = catalog[j + 1].size =>
             RawPos(catalog[j].id) < RawPos(catalog[j + 1].id)

\* C14 witness: a raw list out of order with two records of one size, all
\* three in the catalog.
C14_Witness ==
  /\ Running
  /\ Len(raw) = 3
  /\ Len(catalog) = 3
  /\ raw[1].size > raw[2].size
  /\ raw[2].size = raw[3].size
  /\ catalog[1].id = raw[2].id
  /\ catalog[2].id = raw[3].id
  /\ catalog[3].id = raw[1].id

\* C15: getMostPopularSkipIndex returns the smallest index holding the
\* largest popularity, 0 for an empty or one-entry catalog, and 1 for the
\* popularities 0.15, 0.35, 0.25.
C15_FirstMaximum ==
  result.op = "mostPopular" =>
    /\ Len(catalog) <= 1 => result.index = 0
    /\ Len(catalog) >= 1 =>
         /\ result.index + 1 \in Entries
         /\ \A j \in Entries :
              catalog[j].popularity <= catalog[result.index + 1].popularity
         /\ \A j \in 1..result.index :
              catalog[j].popularity < catalog[result.index + 1].popularity
    /\ ( /\ Len(catalog) = 3
         /\ catalog[1].popularity = 15
         /\ catalog[2].popularity = 35
         /\ catalog[3].popularity = 25 ) => result.index = 1

\* C15 witness: the largest popularity held by the second and the third
\* entry, and the second returned.
C15_Witness ==
  /\ result.op = "mostPopular"
  /\ Len(catalog) = 3
  /\ catalog[1].popularity = 15
  /\ catalog[2].popularity = 35
  /\ catalog[3].popularity = 35
  /\ result.index = 1

\* C16: getSkipIndexBySize(size) returns the index of the first entry of
\* that size when there is one and the value of getMostPopularSkipIndex()
\* otherwise; on a catalog that is not empty it is a valid index.
C16_IndexBySize ==
  result.op = "bySize" =>
    LET hits == {j \in Entries : catalog[j].size = result.size}
    IN  /\ hits # {} =>
             /\ result.index + 1 \in hits
             /\ \A j \in hits : result.index + 1 <= j
        /\ hits = {} => result.index = getMostPopularSkipIndex
        /\ Len(catalog) > 0 => result.index \in 0..(Len(catalog) - 1)

\* C16 witness: size 999, which no entry has, answered with the index of
\* the most popular of three entries.
C16_Witness ==
  /\ result.op = "bySize"
  /\ result.size = 999
  /\ Len(catalog) = 3
  /\ catalog[2].popularity = 35
  /\ catalog[1].popularity = 15
  /\ result.index = 1

\* C17: the restrictions of an entry are, in this order, the road-permit
\* message iff allowed_on_road is false, the heavy-waste message iff
\* allows_heavy_waste is false, and the transport-cost message iff the
\* transport cost is not null; nothing else, nothing twice.
C17_RestrictionsFromFields ==
  Running =>
    \A i \in Entries :
      LET e == catalog[i]
      IN  e.restrictions =
            (IF ~e.allowed_on_road THEN <<"Road permit required">> ELSE <<>>)
            \o (IF ~e.allows_heavy_waste
                THEN <<"Heavy waste restrictions apply">> ELSE <<>>)
            \o (IF e.transport_cost # NoCost
                THEN <<"Additional transport costs apply">> ELSE <<>>)

\* ------------------------------------------------------------------------
\* Properties of the wizard over the catalog
\* ------------------------------------------------------------------------

\* C18: no step of the program writes the raw record list, building the
\* catalog included, and once built the catalog is never written: no Next,
\* Previous, tile click, tab click or hover creates, changes, removes or
\* reorders an entry.
C18_CatalogImmutable ==
  [][raw' = raw /\ (Running => catalog' = catalog)]_vars

\* C18 witness: the catalog of the nine fixture records, in fixture order,
\* after a tab click that reordered the tabs.
C18_Witness ==
  /\ Running
  /\ raw = rawApiData
  /\ Len(catalog) = 9
  /\ \A i \in Entries : catalog[i].id = rawApiData[i].id
  /\ Logged1
  /\ Last.op = "Tab"
  /\ Last.idx = 4
  /\ tabs # propTabs

\* C19: the wizard starts at step 1; the Next button is rendered exactly
\* below step 6 and the Previous button is disabled exactly at step 1; a
\* wizard at step 6 leaves it only by a Previous click, to step 5.
C19_LastStepHasNoNext ==
  /\ history = <<>> => currentStep = 1
  /\ NextRendered(currentStep) <=> currentStep < 6
  /\ PreviousDisabled(currentStep) <=> currentStep = 1
  /\ (Logged1 /\ Last.pre.currentStep = 6 /\ currentStep # 6) =>
       (Last.op = "Previous" /\ currentStep = 5)

\* C19 witness: at step 6 a Next click that changed nothing, then the
\* Previous click that left step 6.
C19_Witness ==
  /\ Logged2
  /\ Before.op = "Next"
  /\ Before.pre.currentStep = 6
  /\ Last.op = "Previous"
  /\ Last.pre.currentStep = 6
  /\ ~NextRendered(Last.pre.currentStep)
  /\ currentStep = 5

\* The accepted Next clicks of the log.
AcceptedNexts ==
  {i \in 1..Len(history) : history[i].op = "Next" /\ history[i].pre.canGoNext}

\* C20: every event acts on the state the event before it left: over any
\* logged run of Next, tile, tab and hover events without a Previous, the
\* step is min(s + k, 6), s the step the run met and k its accepted Next
\* clicks.
C20_NoLostUpdate ==
  (Logged1 /\ \A i \in 1..Len(history) : history[i].op # "Previous") =>
    LET s == history[1].pre.currentStep
        k == Cardinality(AcceptedNexts)
    IN  currentStep = IF s + k < 6 THEN s + k ELSE 6

\* C20 witness: two Next clicks in a row from step 3, ending at step 5.
C20_Witness ==
  /\ Logged2
  /\ Len(history) = Cardinality(AcceptedNexts)
  /\ history[1].pre.currentStep = 3
  /\ currentStep = 3 + Len(history)

\* ------------------------------------------------------------------------
\* Properties of the decorated entries and of the cards
\* ------------------------------------------------------------------------

\* C21: the deliveryTime of an entry is "Next day" if its transport cost is
\* not null and "Same day" otherwise, and it is "Next day" exactly when the
\* restrictions hold the transport-cost message.
C21_DeliveryTime ==
  Running =>
    \A i \in Entries :
      LET e == catalog[i]
      IN  /\ e.deliveryTime =
               IF e.transport_cost # NoCost THEN "Next day" ELSE "Same day"
          /\ (e.deliveryTime = "Next day") <=>
               (\E k \in 1..Len(e.restrictions) :
                  e.restrictions[k] = "Additional transport costs apply")

\* The band of a size in the banding size>=40, size>=20, size>=16, size>=14,
\* size>=12, else, counted from 1.
Band(size) ==
  IF size >= 40 THEN 1
  ELSE IF size >= 20 THEN 2
  ELSE IF size >= 16 THEN 3
  ELSE IF size >= 14 THEN 4
  ELSE IF size >= 12 THEN 5
  ELSE 6

\* The theme gradient of each band.
BandGradients ==
  << "from-slate-600 via-gray-700 to-zinc-800",
     "from-red-500 via-red-700 to-red-900",
     "from-cyan-400 via-teal-500 to-emerald-600",
     "from-indigo-400 via-blue-600 to-blue-900",
     "from-yellow-400 via-amber-500 to-orange-600",
     "from-slate-400 via-gray-500 to-zinc-600" >>

\* The tabulated sizes.
Tabulated == {4, 6, 8, 10, 12}

\* The display properties an entry carries.
DisplayOf(e) ==
  [name |-> e.name, popularity |-> e.popularity, icon |-> e.icon,
   gradient |-> e.gradient, description |-> e.description,
   bestFor |-> e.bestFor, useCases |-> e.useCases]

\* C22: every record of positive size gets an entry; a size of the table
\* {4, 6, 8, 10, 12} gets that table entry, any other size the name
\* "<size> Yard Skip", popularity 0.1 and the gradient of the first band it
\* falls in; the sizes 14, 16, 20 and 40 get the indigo-blue, cyan-teal, red
\* and slate-gray gradients.
C22_DisplayTotal ==
  Running =>
    /\ Len(catalog) = Len(raw)
    /\ DOMAIN sizeConfig = Tabulated
    /\ \A i \in Entries :
         LET e == catalog[i]
         IN  /\ e.size \in Tabulated => DisplayOf(e) = sizeConfig[e.size]
             /\ e.size \notin Tabulated =>
                  /\ e.name = ToString(e.size) \o " Yard Skip"
                  /\ e.popularity = 10
                  /\ e.gradient = BandGradients[Band(e.size)]
             /\ e.size = 14 => e.gradient = "from-indigo-400 via-blue-600 to-blue-900"
             /\ e.size = 16 => e.gradient = "from-cyan-400 via-teal-500 to-emerald-600"
             /\ e.size = 20 => e.gradient = "from-red-500 via-red-700 to-red-900"
             /\ e.size = 40 => e.gradient = "from-slate-600 via-gray-700 to-zinc-800"

\* C22 witness: a tabulated size next to the size 40, the first with its
\* table name and the second with the synthesized name and the slate
\* gradient.
C22_Witness ==
  /\ Running
  /\ Len(catalog) = 2
  /\ catalog[1].size = 10
  /\ catalog[1].name = "Extra Large"
  /\ catalog[2].size = 40
  /\ catalog[2].name = "40 Yard Skip"
  /\ catalog[2].gradient = "from-slate-600 via-gray-700 to-zinc-800"

\* The pairs of entries of untabulated sizes that fall in one band.
SameBandPairs ==
  { p \in Entries \X Entries :
      /\ catalog[p[1]].size \notin Tabulated
      /\ catalog[p[2]].size \notin Tabulated
      /\ Band(catalog[p[1]].size) = Band(catalog[p[2]].size) }

\* C23 as first stated: two untabulated sizes of one band get the same icon
\* category, theme tag, best-for labels and use-case labels.
C23_SameBandSameLabels ==
  Running =>
    \A p \in SameBandPairs :
      /\ catalog[p[1]].icon = catalog[p[2]].icon
      /\ catalog[p[1]].gradient = catalog[p[2]].gradient
      /\ catalog[p[1]].bestFor = catalog[p[2]].bestFor
      /\ catalog[p[1]].useCases = catalog[p[2]].useCases

\* C23, as amended: two untabulated sizes of one band get the same theme
\* tag, best-for labels and use-case labels; the icon category is keyed on
\* size>=16, size>=10, else, so the two get the same icon category unless
\* one is below 10 and the other is not.
C23_SameBandSameTheme ==
  Running =>
    /\ \A p \in SameBandPairs :
         /\ catalog[p[1]].gradient = catalog[p[2]].gradient
         /\ catalog[p[1]].bestFor = catalog[p[2]].bestFor
         /\ catalog[p[1]].useCases = catalog[p[2]].useCases
         /\ (catalog[p[1]].icon = catalog[p[2]].icon) <=>
              ((catalog[p[1]].size < 10) <=> (catalog[p[2]].size < 10))
    /\ \A i \in Entries :
         catalog[i].size \notin Tabulated =>
           catalog[i].icon =
             IF catalog[i].size >= 16 THEN "Factory"
             ELSE IF catalog[i].size >= 10 THEN "Building" ELSE "Home"

\* C23 witness: the sizes 9 and 11, both of the last band, with the same
\* labels and different icons.
C23_Witness ==
  /\ Running
  /\ Len(catalog) = 2
  /\ catalog[1].size = 9
  /\ catalog[2].size = 11
  /\ <<1, 2>> \in SameBandPairs
  /\ catalog[1].bestFor = catalog[2].bestFor
  /\ catalog[1].icon = "Home"
  /\ catalog[2].icon = "Building"

\* C28: the price breakdown of every entry adds up to its total, base price
\* plus the rounded VAT amount plus the transport cost when it is drawn, and
\* the transport cost is drawn exactly when it was added into final_price.
C28_BreakdownAddsUp ==
  Running =>
    \A i \in Entries :
      LET e == catalog[i]
          b == PriceBreakdown(e)
      IN  /\ b.vat = (2 * e.price_before_vat * e.vat + 100) \div 200
          /\ b.base + b.vat
               + (IF b.transport # NoCost THEN b.transport[1] ELSE 0) = b.total
          /\ (b.transport # NoCost) <=> (e.final_price # e.price_with_vat)

\* ------------------------------------------------------------------------
\* Properties of the step content and of the tabs
\* ------------------------------------------------------------------------

\* C24: in every reachable state the step content rendered is the component
\* bound to the current step number, 1 Postcode to 6 Payment as in steps,
\* its hooks the only step hooks that exist, and the current step is one of
\* the case labels, so the default branch is not taken.
C24_StepIdentity ==
  /\ currentStep \in stepCases
  /\ steps[currentStep].id = currentStep
  /\ renderStepContent(currentStep) = steps[currentStep].component
  /\ renderStepContent(currentStep) =
       <<"PostcodeStep", "WasteTypeStep", "SelectSkipStep", "PermitCheckStep",
         "ChooseDateStep", "PaymentStep">>[currentStep]
  /\ (selectedWasteType # Unmounted) <=> (currentStep = 2)
  /\ (tabs # <<>>) <=> (currentStep = 3)
  /\ (selectedPermit # Unmounted) <=> (currentStep = 4)

\* C24 witness: step 4 showing PermitCheckStep, a permit tile just clicked.
C24_Witness ==
  /\ currentStep = 4
  /\ Logged1
  /\ Last.op = "PermitTile"
  /\ selectedPermit = "On the road/public highway"
  /\ renderStepContent(currentStep) = "PermitCheckStep"

\* The buttons of the tab strip drawn as active, by canonical position.
ActiveButtons == {i \in 1..Len(propTabs) : ButtonActive(propTabs[i])}

\* C25: while the Tabs component is mounted the active tab is the first of
\* the reordered list, and exactly one button of the canonically ordered
\* strip is drawn as active: the button of the tab whose card the panel
\* shows.
C25_OneActiveButton ==
  currentStep = 3 =>
    /\ active = tabs[1]
    /\ Cardinality(ActiveButtons) = 1
    /\ Len(HybridSkipPanel(tabs)) = 1
    /\ \A i \in ActiveButtons :
         propTabs[i].value = ToString(HybridSkipPanel(tabs)[1].id)

\* C25 witness: after a click on the seventh button, that button alone is
\* active and the card of the 16-yard skip is shown.
C25_Witness ==
  /\ currentStep = 3
  /\ Logged1
  /\ Last.op = "Tab"
  /\ Last.idx = 6
  /\ ActiveButtons = {7}
  /\ HybridSkipPanel(tabs)[1].size = 16

\* C26: after any tab clicks the reordered list is a permutation of the
\* canonical list: same length, every canonical tab exactly once.
C26_Permutation ==
  currentStep = 3 =>
    /\ Len(tabs) = Len(propTabs)
    /\ \A i \in 1..Len(propTabs) :
         Cardinality({j \in 1..Len(tabs) : tabs[j] = propTabs[i]}) = 1

\* C26 witness: a click on the first button and then on the last one, the
\* two ends of the index range.
C26_Witness ==
  /\ currentStep = 3
  /\ Logged2
  /\ Before.op = "Tab"
  /\ Before.idx = 0
  /\ Last.op = "Tab"
  /\ Last.idx = Len(propTabs) - 1
  /\ tabs[1] = propTabs[Len(propTabs)]
  /\ tabs[Len(tabs)] = propTabs[Len(propTabs) - 1]

\* The last event was a Previous click.
PreviousClicked == Logged1 /\ Last.op = "Previous"

\* C27 as first stated: the gate flag is true in every reachable state, a
\* Next click on a step 1..5 always advances, and with Next clicks handled
\* fairly the wizard at any step eventually reaches step 6.
C27_NextFairnessReachesEnd ==
  /\ [](canGoNext = TRUE)
  /\ []((Logged1 /\ Last.op = "Next" /\ Last.pre.currentStep \in 1..5) =>
          currentStep = Last.pre.currentStep + 1)
  /\ \A s \in 1..6 : (currentStep = s) ~> (currentStep = 6)

\* C27, as amended: the gate flag is true in every reachable state, a Next
\* click on a step 1..5 always advances, and when Next clicks are handled
\* fairly and Previous clicks come to an end the wizard reaches step 6 and
\* stays, from whatever step it was at and whatever was or was not selected.
C27_GateOpenReachesEnd ==
  /\ [](canGoNext = TRUE)
  /\ []((Logged1 /\ Last.op = "Next" /\ Last.pre.currentStep \in 1..5) =>
          currentStep = Last.pre.currentStep + 1)
  /\ (<>[](~PreviousClicked) => <>[](currentStep = 6))

\* C27 witness: step 6 reached by Next clicks alone from step 4, the gate
\* open and no selection made on the way.
C27_Witness ==
  /\ Logged2
  /\ Before.op = "Next"
  /\ Before.pre.currentStep = 4
  /\ Before.pre.selectedPermit = null
  /\ Last.op = "Next"
  /\ Last.pre.currentStep = 5
  /\ Last.pre.selectedPermit = Unmounted
  /\ canGoNext
  /\ currentStep = 6

\* C29: on the skip-selection step the value of the displayed tab is the
\* identifier of exactly one catalog entry, which the panel's lookup
\* returns; the tab values are the identifiers of the catalog entries,
\* pairwise distinct, and the tab titles are pairwise distinct.
C29_LookupFindsOne ==
  currentStep = 3 =>
    /\ Len(propTabs) = Len(catalog)
    /\ \A i \in 1..Len(propTabs) : propTabs[i].value = ToString(catalog[i].id)
    /\ \A i, j \in 1..Len(propTabs) :
         i # j => /\ propTabs[i].value # propTabs[j].value
                  /\ propTabs[i].title # propTabs[j].title
    /\ \A k \in 1..Len(tabs) :
         /\ Cardinality({i \in Entries : ToString(catalog[i].id) = tabs[k].value}) = 1
         /\ ToString(findSkip(tabs[k].value).id) = tabs[k].value

\* C29 witness: the last tab displayed, its lookup giving entry 15125.
C29_Witness ==
  /\ currentStep = 3
  /\ Logged1
  /\ Last.op = "Tab"
  /\ Last.idx = 8
  /\ tabs[1].value = "15125"
  /\ findSkip(tabs[1].value).size = 40

\* C30: when the skip-selection step is shown, by a Next click from step 2
\* or a Previous click from step 4, the tab order is the canonical one and
\* the active tab and the card shown are those of the first catalog entry,
\* the smallest size, which is not the entry at getMostPopularSkipIndex().
C30_OpensOnFirstEntry ==
  (Logged1 /\ currentStep = 3 /\ Last.pre.currentStep # 3) =>
    /\ tabs = propTabs
    /\ active = propTabs[1]
    /\ active.value = ToString(catalog[1].id)
    /\ \A i \in Entries : catalog[1].size <= catalog[i].size
    /\ getMostPopularSkipIndex # 0
    /\ active # propTabs[getMostPopularSkipIndex + 1]
    /\ HybridSkipPanel(tabs) = <<catalog[1]>>

\* C30 witness: the step entered from step 4, open on "Compact", while the
\* most popular entry is the second one.
C30_Witness ==
  /\ Logged1
  /\ Last.op = "Previous"
  /\ Last.pre.currentStep = 4
  /\ currentStep = 3
  /\ active.title = "Compact"
  /\ getMostPopularSkipIndex = 1

====
